---- MODULE Spec2Model ----
(***************************************************************************)
(* A model of pip-accel's configuration handling (pip_accel/config.py) and *)
(* of its requirement wrapper (pip_accel/req.py).                          *)
(*                                                                         *)
(* Python values are tagged records: None, Str(s) and Bool(b).  A string   *)
(* is a sequence of tokens: path components for configuration values       *)
(* ("~/b" is <<"~", "b">>), single characters for file names and         *)
(* versions.  A dict is a function whose DOMAIN is the set of its keys.    *)
(***************************************************************************)
EXTENDS Integers, Sequences, FiniteSets, TLC

VARIABLES
    os_environ,     \* os.environ: dict, variable name -> Str
    uid,            \* os.getuid()
    phase,          \* "new" before Config.__init__, then "ready" or "failed"
    load_env,       \* the load_environment_variables argument of __init__
    configuration,  \* Config.configuration: dict, option name -> Str
    cache,          \* Config.__dict__: the values stored by cached_property
    changes,        \* number of environment changes and file loads so far
    last,           \* the outcome of the last operation
    pip_requirement,\* self.pip_requirement of each descriptor
    source_dir,     \* the unpacked distribution in pip_requirement.source_dir
    index,          \* the source index directory: dict, file name -> mtime
    now,            \* time.time()
    obj,            \* Requirement.__dict__ of each descriptor: cached properties
    frame,          \* the thread evaluating each descriptor: its position and locals
    reported,       \* history: the last_modified values most recently computed, latest first
    lowered         \* history: the latest of them exceeds the related archives' times,
                    \* or the newest related archive was removed since, an older one left

reqVars == <<pip_requirement, source_dir, index, now, obj, frame, reported, lowered>>
vars == <<os_environ, uid, phase, load_env, configuration, cache, changes, last, reqVars>>

(***************************************************************************)
(* Bounds                                                                  *)
(***************************************************************************)
MaxChanges == 1

(***************************************************************************)
(* Python values                                                           *)
(***************************************************************************)
None == [none |-> TRUE]
Str(s) == [str |-> s]
Bool(b) == [bool |-> b]
EmptyStr == Str(<<>>)
EmptyDict == [k \in {} |-> None]

\* bool(v) for the values that occur here: None and '' are false.
Truthy(v) == v # None /\ v # EmptyStr

\* Python's `a or b`.
PyOr(a, b) == IF Truthy(a) THEN a ELSE b

\* dict.get(k), d[k] = v and dict.update(e)
dict_get(d, k) == IF k \in DOMAIN d THEN d[k] ELSE None
dict_set(d, k, v) == [x \in DOMAIN d \cup {k} |-> IF x = k THEN v ELSE d[x]]
dict_del(d, k) == [x \in DOMAIN d \ {k} |-> d[x]]
dict_update(d, e) == [x \in DOMAIN d \cup DOMAIN e |-> IF x \in DOMAIN e THEN e[x] ELSE d[x]]

(***************************************************************************)
(* Paths                                                                   *)
(***************************************************************************)
HOME == <<"/", "home", "user">>
CWD == <<"/", "work">>

\* humanfriendly.parse_path: os.path.abspath(os.path.expanduser(pathname))
parse_path(pathname) ==
    LET t == pathname.str IN
    Str(IF t # <<>> /\ Head(t) = "~" THEN HOME \o Tail(t)
        ELSE IF t # <<>> /\ Head(t) = "/" THEN t
        ELSE CWD \o t)

\* os.path.join(directory, name) for a relative name
path_join(directory, name) == Str(directory.str \o <<name>>)

GLOBAL_CONFIG == Str(<<"/", "etc", "pip-accel.conf">>)
LOCAL_CONFIG == Str(<<"~", ".pip-accel", "pip-accel.conf">>)

(***************************************************************************)
(* Inputs: environment variables, configuration files                      *)
(***************************************************************************)
EnvVars == {"PIP_ACCEL_CONFIG", "PIP_DOWNLOAD_CACHE", "PIP_ACCEL_CACHE",
            "PIP_ACCEL_AUTO_INSTALL", "PIP_ACCEL_S3_BUCKET", "PIP_ACCEL_S3_PREFIX"}

Options == {"download-cache", "data-directory", "auto-install", "s3-bucket", "s3-prefix"}

CUSTOM_CONFIG == Str(<<"/", "custom.conf">>)

\* The value an environment variable is set to after construction.
EnvValue(var) ==
    CASE var = "PIP_ACCEL_AUTO_INSTALL" -> Str(<<"no">>)
      [] var \in {"PIP_DOWNLOAD_CACHE", "PIP_ACCEL_CACHE"} -> Str(<<"~", "env">>)
      [] OTHER -> Str(<<"env">>)

InitialEnvironments ==
    { EmptyDict,
      [v \in {"PIP_ACCEL_CONFIG", "PIP_ACCEL_CACHE", "PIP_ACCEL_S3_PREFIX"} |->
          CASE v = "PIP_ACCEL_CONFIG" -> CUSTOM_CONFIG
            [] v = "PIP_ACCEL_CACHE" -> Str(<<"/", "srv", "env">>)
            [] OTHER -> EmptyStr] }

\* A configuration file as found on disk.  kind is "absent" (no such file),
\* "unreadable" (exists, cannot be opened), "malformed" (the parser rejects
\* it), "nosection" (parses, has no [pip-accel] section) or "ok"; items are
\* the options of its [pip-accel] section.
File(kind, items) == [kind |-> kind, items |-> items]

ItemsA == [o \in {"data-directory", "s3-bucket", "auto-install"} |->
              CASE o = "data-directory" -> Str(<<"/", "srv", "a">>)
                [] o = "s3-bucket" -> Str(<<"bucket-a">>)
                [] OTHER -> Str(<<"bogus">>)]
ItemsB == [o \in {"data-directory", "s3-bucket", "download-cache", "s3-prefix"} |->
              CASE o = "data-directory" -> Str(<<"~", "b">>)
                [] o = "s3-bucket" -> EmptyStr
                [] o = "download-cache" -> Str(<<"cache-b">>)
                [] OTHER -> Str(<<"prefix-b">>)]

FileSamples ==
    { File("absent", EmptyDict), File("unreadable", EmptyDict),
      File("malformed", EmptyDict), File("nosection", EmptyDict),
      File("ok", ItemsA), File("ok", ItemsB) }

(***************************************************************************)
(* Config                                                                  *)
(***************************************************************************)
\* self.environment: os.environ itself (a live reference) or an empty dict
environment == IF load_env THEN os_environ ELSE EmptyDict

\* (mutant of isfile: a candidate counts as a file whether it exists or not)
isfile_always(fs, pathname) == pathname \in DOMAIN fs

\* os.path.isfile
isfile(fs, pathname) == pathname \in DOMAIN fs /\ fs[pathname].kind # "absent"

\* (mutant of known_files: the user's file before the system-wide one)
known_files_swapped(env) == <<LOCAL_CONFIG, GLOBAL_CONFIG, dict_get(env, "PIP_ACCEL_CONFIG")>>

\* The paths __init__ may look at, given what the environment holds.
known_files(env) == <<GLOBAL_CONFIG, LOCAL_CONFIG, dict_get(env, "PIP_ACCEL_CONFIG")>>

RECURSIVE parse_truthy(_)
\* [parse_path(pathname) for pathname in known if pathname]
parse_truthy(known) ==
    IF known = <<>> THEN <<>>
    ELSE (IF Truthy(Head(known)) THEN <<parse_path(Head(known))>> ELSE <<>>)
         \o parse_truthy(Tail(known))

absolute_paths(env) == parse_truthy(known_files(env))

RECURSIVE existing(_, _)
\* [pathname for pathname in paths if os.path.isfile(pathname)]
existing(fs, paths) ==
    IF paths = <<>> THEN <<>>
    ELSE (IF isfile(fs, Head(paths)) THEN <<Head(paths)>> ELSE <<>>)
         \o existing(fs, Tail(paths))

available_configuration_files(env, fs) == existing(fs, absolute_paths(env))

\* A result of a call: it returns or raises.
Returned(conf) == [raised |-> FALSE, error |-> "", configuration |-> conf]
Raised(conf, error) == [raised |-> TRUE, error |-> error, configuration |-> conf]

load_configuration_file(conf, file) ==
    IF file.kind = "malformed" THEN Raised(conf, "configparser.Error")
    ELSE IF file.kind \in {"absent", "unreadable"}
         THEN Raised(conf, "Exception: Failed to load configuration file!")
    ELSE IF file.kind = "nosection"
         THEN Raised(conf, "Exception: Missing 'pip-accel' section in configuration file!")
    ELSE Returned(dict_update(conf, file.items))

RECURSIVE load_all(_, _, _)
\* for filename in self.available_configuration_files: self.load_configuration_file(filename)
load_all(conf, fs, filenames) ==
    IF filenames = <<>> THEN Returned(conf)
    ELSE LET r == load_configuration_file(conf, fs[Head(filenames)]) IN
         IF r.raised THEN r ELSE load_all(r.configuration, fs, Tail(filenames))

\* (mutant of get: the configuration file before the environment)
get_file_first(environment_variable, configuration_option, default) ==
    PyOr(PyOr(dict_get(configuration, configuration_option),
              dict_get(environment, environment_variable)),
         default)

get(environment_variable, configuration_option, default) ==
    PyOr(PyOr(dict_get(environment, environment_variable),
              dict_get(configuration, configuration_option)),
         default)

\* Config.__init__(load_configuration_files, load_environment_variables), with
\* the configuration files found on disk at that moment.
Construct ==
    /\ phase = "new"
    /\ \E lcf \in BOOLEAN, lev \in BOOLEAN :
        LET env == IF lev THEN os_environ ELSE EmptyDict
            paths == {absolute_paths(env)[i] : i \in DOMAIN absolute_paths(env)}
        IN \E fs \in (IF lcf THEN [paths -> FileSamples] ELSE {EmptyDict}) :
            LET r == IF lcf THEN load_all(EmptyDict, fs, available_configuration_files(env, fs))
                     ELSE Returned(EmptyDict)
            IN /\ load_env' = lev
               /\ configuration' = r.configuration
               /\ phase' = IF r.raised THEN "failed" ELSE "ready"
               /\ last' = [op |-> "init", load_configuration_files |-> lcf, files |-> fs,
                           raised |-> r.raised, error |-> r.error]
    /\ UNCHANGED <<os_environ, uid, cache, changes, reqVars>>

\* Config.load_configuration_file(configuration_file), called on a constructed
\* object with whatever the path holds at that moment.
LoadConfigurationFile ==
    /\ phase = "ready"
    /\ changes < MaxChanges
    /\ \E file \in FileSamples :
        LET r == load_configuration_file(configuration, file) IN
        /\ configuration' = r.configuration
        /\ last' = [op |-> "load", file |-> file, raised |-> r.raised, error |-> r.error]
    /\ changes' = changes + 1
    /\ UNCHANGED <<os_environ, uid, phase, load_env, cache, reqVars>>

\* os.environ[var] = value
SetEnv ==
    /\ phase = "ready"
    /\ changes < MaxChanges
    /\ \E var \in EnvVars \ {"PIP_ACCEL_CONFIG"} :
        /\ dict_get(os_environ, var) # EnvValue(var)
        /\ os_environ' = dict_set(os_environ, var, EnvValue(var))
        /\ last' = [op |-> "setenv"]
    /\ changes' = changes + 1
    /\ UNCHANGED <<uid, phase, load_env, configuration, cache, reqVars>>

\* del os.environ[var]
UnsetEnv ==
    /\ phase = "ready"
    /\ changes < MaxChanges
    /\ \E var \in DOMAIN os_environ :
        /\ os_environ' = dict_del(os_environ, var)
        /\ last' = [op |-> "unsetenv"]
    /\ changes' = changes + 1
    /\ UNCHANGED <<uid, phase, load_env, configuration, cache, reqVars>>

Defaults == {None, EmptyStr, Str(<<"default">>)}

\* The (environment variable, option) pairs the settings are read with.
Settings ==
    { <<"PIP_DOWNLOAD_CACHE", "download-cache">>, <<"PIP_ACCEL_CACHE", "data-directory">>,
      <<"PIP_ACCEL_AUTO_INSTALL", "auto-install">>, <<"PIP_ACCEL_S3_BUCKET", "s3-bucket">>,
      <<"PIP_ACCEL_S3_PREFIX", "s3-prefix">> }

\* Config.get(environment_variable, configuration_option, default)
Get ==
    /\ phase = "ready"
    /\ \E s \in Settings, default \in Defaults :
        last' = [op |-> "get", environment_variable |-> s[1], configuration_option |-> s[2],
                 default |-> default, value |-> get(s[1], s[2], default)]
    /\ UNCHANGED <<os_environ, uid, phase, load_env, configuration, cache, changes, reqVars>>

(***************************************************************************)
(* The settings: cached properties of Config                               *)
(***************************************************************************)
\* The outcome of evaluating a property: the value returned (or an exception
\* raised) and the object's __dict__ afterwards.
Value(dict, val) == [raised |-> FALSE, val |-> val, dict |-> dict]
Raise(dict) == [raised |-> TRUE, val |-> None, dict |-> dict]

\* cached_property.__get__: the function runs when the object's __dict__ has
\* no entry of that name, and its value is stored there; it is a non-data
\* descriptor, so a stored entry is returned without running the function.
cached_property(dict, name, body) ==
    IF name \in DOMAIN dict THEN Value(dict, dict[name])
    ELSE IF body.raised THEN body
    ELSE Value(dict_set(body.dict, name, body.val), body.val)

\* humanfriendly.coerce_boolean for a string
coerce_boolean(dict, value) ==
    IF value.str \in {<<"1">>, <<"yes">>, <<"true">>, <<"on">>} THEN Value(dict, Bool(TRUE))
    ELSE IF value.str \in {<<"0">>, <<"no">>, <<"false">>, <<"off">>, <<>>} THEN Value(dict, Bool(FALSE))
    ELSE Raise(dict)

\* (mutant of download_cache: a plain property, evaluated at every read)
download_cache_uncached(dict) ==
    Value(dict, parse_path(get("PIP_DOWNLOAD_CACHE", "download-cache",
                               Str(<<"~", ".pip", "download-cache">>))))

download_cache(dict) ==
    cached_property(dict, "download_cache",
        Value(dict, parse_path(get("PIP_DOWNLOAD_CACHE", "download-cache",
                                   Str(<<"~", ".pip", "download-cache">>)))))

data_directory(dict) ==
    cached_property(dict, "data_directory",
        Value(dict, parse_path(get("PIP_ACCEL_CACHE", "data-directory",
                                   IF uid = 0 THEN Str(<<"/", "var", "cache", "pip-accel">>)
                                   ELSE Str(<<"~", ".pip-accel">>)))))

source_index(dict) ==
    cached_property(dict, "source_index",
        LET d == data_directory(dict) IN Value(d.dict, path_join(d.val, "sources")))

binary_cache(dict) ==
    cached_property(dict, "binary_cache",
        LET d == data_directory(dict) IN Value(d.dict, path_join(d.val, "binaries")))

auto_install(dict) ==
    cached_property(dict, "auto_install",
        LET value == get("PIP_ACCEL_AUTO_INSTALL", "auto-install", None) IN
        IF value # None THEN coerce_boolean(dict, value) ELSE Value(dict, None))

s3_cache_bucket(dict) ==
    cached_property(dict, "s3_cache_bucket",
        Value(dict, get("PIP_ACCEL_S3_BUCKET", "s3-bucket", None)))

s3_cache_prefix(dict) ==
    cached_property(dict, "s3_cache_prefix",
        Value(dict, get("PIP_ACCEL_S3_PREFIX", "s3-prefix", None)))

Fields == {"download_cache", "data_directory", "source_index", "binary_cache",
           "auto_install", "s3_cache_bucket", "s3_cache_prefix"}

\* getattr(config, field)
getattr(dict, field) ==
    CASE field = "download_cache" -> download_cache(dict)
      [] field = "data_directory" -> data_directory(dict)
      [] field = "source_index" -> source_index(dict)
      [] field = "binary_cache" -> binary_cache(dict)
      [] field = "auto_install" -> auto_install(dict)
      [] field = "s3_cache_bucket" -> s3_cache_bucket(dict)
      [] field = "s3_cache_prefix" -> s3_cache_prefix(dict)

\* A read of one of the settings of a constructed Config.
ReadField ==
    /\ phase = "ready"
    /\ \E field \in Fields :
        LET r == getattr(cache, field) IN
        /\ cache' = r.dict
        /\ last' = [op |-> "read", field |-> field, raised |-> r.raised, value |-> r.val]
    /\ UNCHANGED <<os_environ, uid, phase, load_env, configuration, changes, reqVars>>

\* No requirement has been resolved yet.
NoRequirement ==
    /\ pip_requirement = None
    /\ source_dir = None
    /\ index = EmptyDict
    /\ now = 1
    /\ obj = EmptyDict
    /\ frame = EmptyDict
    /\ reported = <<>>
    /\ lowered = FALSE

Init ==
    /\ os_environ \in InitialEnvironments
    /\ uid \in {0, 1000}
    /\ (uid = 0 => os_environ = EmptyDict)   \* root runs with a clean environment
    /\ phase = "new"
    /\ load_env = TRUE
    /\ configuration = EmptyDict
    /\ cache = EmptyDict
    /\ changes = 0
    /\ last = [op |-> "none"]
    /\ NoRequirement

GetNext == Construct \/ LoadConfigurationFile \/ SetEnv \/ UnsetEnv \/ Get

GetSpec == Init /\ [][GetNext]_vars

Next == Construct \/ LoadConfigurationFile \/ SetEnv \/ UnsetEnv \/ ReadField

Spec == Init /\ [][Next]_vars

(***************************************************************************)
(* File names and versions: sequences of characters                        *)
(***************************************************************************)
UPPERCASE == <<"A", "B", "C", "D", "E", "F", "G", "H", "I", "J", "K", "L", "M",
               "N", "O", "P", "Q", "R", "S", "T", "U", "V", "W", "X", "Y", "Z">>
LOWERCASE == <<"a", "b", "c", "d", "e", "f", "g", "h", "i", "j", "k", "l", "m",
               "n", "o", "p", "q", "r", "s", "t", "u", "v", "w", "x", "y", "z">>
DIGITS == {"0", "1", "2", "3", "4", "5", "6", "7", "8", "9"}

\* The lower case form re.IGNORECASE compares characters by.
lower(c) ==
    IF \E k \in DOMAIN UPPERCASE : UPPERCASE[k] = c
    THEN LOWERCASE[CHOOSE k \in DOMAIN UPPERCASE : UPPERCASE[k] = c]
    ELSE c

\* [A-Za-z0-9]
IsAlnum(c) ==
    \/ c \in DIGITS
    \/ \E k \in DOMAIN UPPERCASE : c \in {UPPERCASE[k], LOWERCASE[k]}

\* pip._vendor.distlib.util.ARCHIVE_EXTENSIONS
WHL == <<".", "w", "h", "l">>
ARCHIVE_EXTENSIONS ==
    { <<".", "t", "a", "r", ".", "g", "z">>, <<".", "t", "a", "r", ".", "b", "z", "2">>,
      <<".", "t", "a", "r">>, <<".", "z", "i", "p">>, <<".", "t", "g", "z">>,
      <<".", "t", "b", "z">>, WHL }

(***************************************************************************)
(* Regular expressions: a pattern is a sequence of elements, each the set  *)
(* of characters it stands for, followed by alternative endings.           *)
(***************************************************************************)
\* (mutant of escape_name_callback: dashes and underscores escaped like the rest)
escape_name_callback_literal(character) == {character}

\* what the replacement text matches: '[-_]' or the escaped character itself
escape_name_callback(character) ==
    IF character \in {"-", "_"} THEN {"-", "_"} ELSE {character}

\* re.sub('[^A-Za-z0-9]', escape_name_callback, requirement_name)
escape_name(requirement_name) ==
    [k \in DOMAIN requirement_name |->
        IF IsAlnum(requirement_name[k]) THEN {requirement_name[k]}
        ELSE escape_name_callback(requirement_name[k])]

\* re.escape: every character stands for itself
re_escape(string) == [k \in DOMAIN string |-> {string[k]}]

\* '|'.join(re.escape(ext) for ext in ARCHIVE_EXTENSIONS if ext != '.whl')
extension_pattern == { re_escape(ext) : ext \in ARCHIVE_EXTENSIONS \ {WHL} }

\* '^%s-%s(%s)$' % (name_pattern, version_pattern, extension_pattern)
compile(name_pattern, version_pattern, extensions) ==
    [stem |-> name_pattern \o <<{"-"}>> \o version_pattern, endings |-> extensions]

\* The elements match the characters one by one, ignoring case.
MatchElements(elements, string) ==
    /\ Len(string) = Len(elements)
    /\ \A k \in DOMAIN elements : \E c \in elements[k] : lower(c) = lower(string[k])

\* compiled_pattern.match(fn) with re.IGNORECASE: ^ is the start of fn, and $
\* is its end or the position before a newline that ends it.
match(pattern, fn) ==
    \E ending \in pattern.endings :
        LET elements == pattern.stem \o ending IN
        \/ MatchElements(elements, fn)
        \/ /\ Len(fn) = Len(elements) + 1
           /\ fn[Len(fn)] = "\n"
           /\ MatchElements(elements, SubSeq(fn, 1, Len(elements)))

(***************************************************************************)
(* Requirement                                                             *)
(***************************************************************************)
\* The directory whose listing the variable index is.
INDEX_DIR == Str(<<"/", "home", "user", ".pip-accel", "sources">>)

\* os.listdir succeeds on an existing directory
isdir(directory) == directory = INDEX_DIR
listdir(directory) == DOMAIN index

\* os.path.getmtime of a file of the source index
basename(path) == path.str[Len(path.str)]
exists(path) == basename(path) \in DOMAIN index
getmtime(path) == index[basename(path)]

Max(S) == CHOOSE x \in S : \A y \in S : y <= x
Min(S) == CHOOSE x \in S : \A y \in S : x <= y

\* The state of an evaluation of a property of a Requirement: the object's
\* __dict__, the __dict__ of its Config, the metadata readers called so far,
\* and the value returned or the exception raised.
Start(d) == [d |-> d, dict |-> obj[d], conf |-> cache, readers |-> {},
             raised |-> FALSE, error |-> "", message |-> "", val |-> None]
Ok(s, val) == [s EXCEPT !.raised = FALSE, !.val = val]
Fail(s, error, message) == [s EXCEPT !.raised = TRUE, !.error = error, !.message = message]
Invoke(s, reader) == [s EXCEPT !.readers = @ \cup {reader}]

\* (mutant of req_cached_property: the function runs at every access and its
\* value replaces the stored one)
req_cached_property_refreshing(s, property, body) ==
    IF body.raised THEN body
    ELSE [body EXCEPT !.dict = dict_set(@, property, body.val)]

\* cached_property.__get__ on a Requirement
req_cached_property(s, property, body) ==
    IF property \in DOMAIN s.dict THEN Ok(s, s.dict[property])
    ELSE IF body.raised THEN body
    ELSE [body EXCEPT !.dict = dict_set(@, property, body.val)]

name(s) ==
    req_cached_property(s, "name", Ok(s, pip_requirement[s.d].project_name))

source_directory(s) ==
    req_cached_property(s, "source_directory", Ok(s, pip_requirement[s.d].source_dir))

\* (mutant of is_wheel: a directory with both markers is taken for a source distribution)
is_wheel_defaulting(s) ==
    req_cached_property(s, "is_wheel",
        LET s1 == source_directory(s) IN
        IF source_dir.wheel /\ ~source_dir.setup_py THEN Ok(s1, Bool(TRUE))
        ELSE IF source_dir.setup_py THEN Ok(s1, Bool(FALSE))
        ELSE Fail(s1, "UnknownDistributionFormat",
                  "doesn't look like a source distribution and also doesn't look like a wheel distribution"))

is_wheel(s) ==
    req_cached_property(s, "is_wheel",
        LET s1 == source_directory(s)
            probably_sdist == source_dir.setup_py
            probably_wheel == source_dir.wheel
        IN IF probably_wheel /\ ~probably_sdist THEN Ok(s1, Bool(TRUE))
           ELSE IF probably_sdist /\ ~probably_wheel THEN Ok(s1, Bool(FALSE))
           ELSE IF probably_sdist /\ probably_wheel
                THEN Fail(s1, "UnknownDistributionFormat",
                          "looks like a source distribution and a wheel distribution")
           ELSE Fail(s1, "UnknownDistributionFormat",
                     "doesn't look like a source distribution and also doesn't look like a wheel distribution"))

\* (mutant of read_pkg_info: no check of the format)
read_pkg_info_unguarded(s1) ==
    IF s1.raised THEN s1
    ELSE Ok(Invoke(s1, "pkg_info"), [Version |-> source_dir.version])

\* the body of sdist_metadata, s1 being the evaluation after self.is_wheel
read_pkg_info(s1) ==
    IF s1.raised THEN s1
    ELSE IF s1.val = Bool(TRUE)
         THEN Fail(s1, "TypeError", "Requirement is not a source distribution!")
    ELSE Ok(Invoke(s1, "pkg_info"), [Version |-> source_dir.version])

sdist_metadata(s) ==
    req_cached_property(s, "sdist_metadata", read_pkg_info(is_wheel(s)))

\* the body of wheel_metadata, s1 being the evaluation after self.is_wheel
find_distributions(s1) ==
    IF s1.raised THEN s1
    ELSE IF s1.val # Bool(TRUE)
         THEN Fail(s1, "TypeError", "Requirement is not a wheel distribution!")
    ELSE IF source_dir.distribution
         THEN Ok(Invoke(source_directory(s1), "find_distributions"),
                 [version |-> source_dir.version])
    ELSE Fail(Invoke(source_directory(s1), "find_distributions"),
              "Exception", "pkg_resources didn't find a wheel distribution")

wheel_metadata(s) ==
    req_cached_property(s, "wheel_metadata", find_distributions(is_wheel(s)))

\* self.wheel_metadata.version and self.sdist_metadata['Version']
metadata_version(s2, key) == IF s2.raised THEN s2 ELSE Ok(s2, s2.val[key])

\* the body of version, s1 being the evaluation after self.is_wheel
version_of(s1) ==
    IF s1.raised THEN s1
    ELSE IF s1.val = Bool(TRUE) THEN metadata_version(wheel_metadata(s1), "version")
    ELSE metadata_version(sdist_metadata(s1), "Version")

version(s) == req_cached_property(s, "version", version_of(is_wheel(s)))

\* the listing of the source index filtered by the pattern, index_dir being the
\* evaluation of self.config.source_index
matching_archives(s2, index_dir, compiled_pattern) ==
    IF ~isdir(index_dir.val)
    THEN Fail([s2 EXCEPT !.conf = index_dir.dict], "OSError", "No such file or directory")
    ELSE Ok([s2 EXCEPT !.conf = index_dir.dict],
            { path_join(index_dir.val, fn) :
                fn \in { f \in listdir(index_dir.val) : match(compiled_pattern, f) } })

\* the body of related_archives, s2 being the evaluation after self.name and
\* self.version
archives_of(s2) ==
    IF s2.raised THEN s2
    ELSE matching_archives(s2, source_index(s2.conf),
                           compile(escape_name(s2.dict["name"]), re_escape(s2.val),
                                   extension_pattern))

related_archives(s) ==
    req_cached_property(s, "related_archives", archives_of(version(name(s))))

\* (mutant of newest: the oldest archive instead of the newest)
newest_oldest(s1) ==
    IF s1.raised THEN s1
    ELSE IF \E path \in s1.val : ~exists(path)
         THEN Fail(s1, "OSError", "No such file or directory")
    ELSE IF s1.val # {} THEN Ok(s1, Min({ getmtime(path) : path \in s1.val }))
    ELSE Ok(s1, now)

\* (mutant of newest: the current time, whatever the archives)
newest_fresh(s1) ==
    IF s1.raised THEN s1
    ELSE IF \E path \in s1.val : ~exists(path)
         THEN Fail(s1, "OSError", "No such file or directory")
    ELSE Ok(s1, now)

\* (mutant of newest: the epoch instead of the current time when nothing matches)
newest_or_epoch(s1) ==
    IF s1.raised THEN s1
    ELSE IF \E path \in s1.val : ~exists(path)
         THEN Fail(s1, "OSError", "No such file or directory")
    ELSE IF s1.val # {} THEN Ok(s1, Max({ getmtime(path) : path \in s1.val }))
    ELSE Ok(s1, 0)

\* the body of last_modified, s1 being the evaluation after self.related_archives
newest(s1) ==
    IF s1.raised THEN s1
    ELSE IF \E path \in s1.val : ~exists(path)
         THEN Fail(s1, "OSError", "No such file or directory")
    ELSE IF s1.val # {} THEN Ok(s1, Max({ getmtime(path) : path \in s1.val }))
    ELSE Ok(s1, now)

last_modified(s) ==
    req_cached_property(s, "last_modified", newest(related_archives(s)))

\* isinstance(self.pip_requirement.comes_from, InstallRequirement)
is_transitive(s) ==
    req_cached_property(s, "is_transitive",
        Ok(s, Bool(DOMAIN pip_requirement[s.d].comes_from = {"install_requirement"})))

is_direct(s) ==
    req_cached_property(s, "is_direct",
        LET s1 == is_transitive(s) IN Ok(s1, Bool(~s1.val.bool)))

is_editable(s) ==
    req_cached_property(s, "is_editable", Ok(s, Bool(pip_requirement[s.d].editable)))

\* getattr(requirement, property)
req_getattr(s, property) ==
    CASE property = "name" -> name(s)
      [] property = "version" -> version(s)
      [] property = "related_archives" -> related_archives(s)
      [] property = "last_modified" -> last_modified(s)
      [] property = "source_directory" -> source_directory(s)
      [] property = "is_wheel" -> is_wheel(s)
      [] property = "is_transitive" -> is_transitive(s)
      [] property = "is_direct" -> is_direct(s)
      [] property = "is_editable" -> is_editable(s)
      [] property = "sdist_metadata" -> sdist_metadata(s)
      [] property = "wheel_metadata" -> wheel_metadata(s)

\* The file name is one related_archives of a fresh descriptor like d would list.
Related(d, f) ==
    match(compile(escape_name(pip_requirement[d].project_name),
                  re_escape(source_dir.version), extension_pattern), f)

\* What a read of a property of descriptor d leaves behind, r being its
\* evaluation: the object and its Config keep what the evaluation stored; a
\* last_modified that was computed is the latest report, and lowered records
\* that it is the time of the call although the index holds a related archive
\* (one written after the descriptor listed the index).
Complete(d, property, r) ==
    /\ obj' = [obj EXCEPT ![d] = r.dict]
    /\ cache' = r.conf
    /\ last' = [op |-> "read", d |-> d, property |-> property,
                hit |-> property \in DOMAIN obj[d], raised |-> r.raised,
                error |-> r.error, message |-> r.message, value |-> r.val,
                readers |-> r.readers]
    /\ reported' = IF property = "last_modified" /\ ~r.raised
                      /\ "last_modified" \notin DOMAIN obj[d]
                   THEN <<r.val>> \o SubSeq(reported, 1, Min({1, Len(reported)}))
                   ELSE reported
    /\ lowered' = IF property = "last_modified" /\ ~r.raised
                     /\ "last_modified" \notin DOMAIN obj[d]
                  THEN r.dict["related_archives"] = {} /\ \E f \in DOMAIN index : Related(d, f)
                  ELSE lowered
    /\ UNCHANGED <<os_environ, uid, phase, load_env, configuration, changes,
                   pip_requirement, source_dir, index, now, frame>>

Read(d, property) == Complete(d, property, req_getattr(Start(d), property))

(***************************************************************************)
(* Matching of archive names: related_archives over bounded listings       *)
(***************************************************************************)
MaxListing == 2

FOO == <<"f", "o", "o">>
P_Y_Z == <<"p", "-", "y", "_", "z">>
A_DOT_B == <<"a", ".", "b">>
V1_0 == <<"1", ".", "0">>
ZIP == <<".", "z", "i", "p">>
TAR_GZ == <<".", "t", "a", "r", ".", "g", "z">>

Names == {FOO, P_Y_Z, A_DOT_B}
Versions == {V1_0, <<"2">>}

\* File names a source index may hold.
Candidates ==
    { FOO \o <<"-">> \o V1_0 \o TAR_GZ,                       \* foo-1.0.tar.gz
      <<"F", "o", "o", "_">> \o V1_0 \o ZIP,                  \* Foo_1.0.zip
      <<"F", "O", "O", "-">> \o V1_0 \o <<".", "Z", "I", "P">>,  \* FOO-1.0.ZIP
      FOO \o <<"-">> \o V1_0 \o WHL,                          \* foo-1.0.whl
      FOO \o <<"-", "1", "x", "0">> \o ZIP,                   \* foo-1x0.zip
      FOO \o <<"-">> \o V1_0 \o ZIP \o <<".", "b", "a", "k">>,  \* foo-1.0.zip.bak
      <<"x">> \o FOO \o <<"-">> \o V1_0 \o ZIP,               \* xfoo-1.0.zip
      FOO \o <<"-">> \o V1_0 \o ZIP \o <<"\n">>,              \* foo-1.0.zip<newline>
      FOO \o <<"-">> \o V1_0,                                 \* foo-1.0
      FOO \o <<"-", "2">> \o <<".", "t", "g", "z">>,          \* foo-2.tgz
      <<"p", "_", "y", "-", "z", "-">> \o V1_0 \o ZIP,        \* p_y-z-1.0.zip
      <<"P", "-", "Y", "_", "Z", "_">> \o V1_0 \o ZIP,        \* P-Y_Z_1.0.zip
      <<"p", "y", "z", "-">> \o V1_0 \o ZIP,                  \* pyz-1.0.zip
      <<"a", ".", "b", "-">> \o V1_0 \o <<".", "t", "a", "r">>,  \* a.b-1.0.tar
      <<"a", "x", "b", "-">> \o V1_0 \o ZIP,                  \* axb-1.0.zip
      <<"a", "-", "b", "-", "2">> \o ZIP }                    \* a-b-2.zip

\* No thread is evaluating the descriptor.
Idle == [pc |-> "idle"]

\* A requirement as pip resolved it.
InstallRequirement(project_name, comes_from, editable) ==
    [project_name |-> project_name, source_dir |-> Str(<<"/", "build", "unpacked">>),
     comes_from |-> comes_from, editable |-> editable]

\* An unpacked distribution: its marker files, whether pkg_resources finds a
\* distribution in it, and the version its metadata states.
Unpacked(setup_py, wheel, distribution, v) ==
    [setup_py |-> setup_py, wheel |-> wheel, distribution |-> distribution, version |-> v]

\* A constructed Config with the defaults of an unprivileged user.
DefaultConfig ==
    /\ os_environ = EmptyDict
    /\ uid = 1000
    /\ phase = "ready"
    /\ load_env = TRUE
    /\ configuration = EmptyDict
    /\ cache = EmptyDict
    /\ changes = 0
    /\ last = [op |-> "none"]

RECURSIVE Listings(_)
\* The sets of at most n of the candidate file names.
Listings(n) ==
    IF n = 0 THEN {{}}
    ELSE LET smaller == Listings(n - 1) IN
         smaller \cup { S \cup {f} : S \in smaller, f \in Candidates }

MatchInit ==
    /\ DefaultConfig
    /\ pip_requirement \in { [d \in {"a"} |-> InstallRequirement(n, None, FALSE)] : n \in Names }
    /\ source_dir \in { Unpacked(TRUE, FALSE, FALSE, v) : v \in Versions }
    /\ index \in { [f \in S |-> 1] : S \in Listings(MaxListing) }
    /\ now = 2
    /\ obj = [d \in {"a"} |-> EmptyDict]
    /\ frame = [d \in {"a"} |-> Idle]
    /\ reported = <<>>
    /\ lowered = FALSE

ReadRelatedArchives == \E d \in DOMAIN obj : Read(d, "related_archives")

MatchNext == ReadRelatedArchives

MatchSpec == MatchInit /\ [][MatchNext]_vars

(***************************************************************************)
(* Descriptors of one requirement over a changing source index             *)
(***************************************************************************)
MaxWrites == 1
MaxClock == 3

FOO_TAR_GZ == FOO \o <<"-">> \o V1_0 \o TAR_GZ
FOO_ZIP == FOO \o <<"-">> \o V1_0 \o ZIP
FOO_2_TGZ == FOO \o <<"-", "2">> \o <<".", "t", "g", "z">>

\* The file names written to the source index.
Archives == {FOO_TAR_GZ, FOO_ZIP}

\* Source indexes at the start: file name |-> modification time.
IndexSamples ==
    { [f \in {} |-> 1],
      [f \in {FOO_TAR_GZ} |-> 1],
      [f \in {FOO_TAR_GZ, FOO_ZIP} |-> IF f = FOO_ZIP THEN 2 ELSE 1],
      [f \in {FOO_TAR_GZ, FOO_2_TGZ} |-> IF f = FOO_2_TGZ THEN 2 ELSE 1] }

\* The properties read of a descriptor.
ReqProperties == {"is_wheel", "version", "sdist_metadata", "wheel_metadata",
                  "related_archives", "last_modified"}

ReqInit ==
    /\ DefaultConfig
    /\ pip_requirement = [d \in {"a"} |-> InstallRequirement(FOO, None, FALSE)]
    /\ source_dir \in { Unpacked(s, w, w, V1_0) : s \in BOOLEAN, w \in BOOLEAN }
                      \cup { Unpacked(FALSE, TRUE, FALSE, V1_0) }
    /\ index \in IndexSamples
    /\ now = 2
    /\ obj = [d \in {"a"} |-> EmptyDict]
    /\ frame = [d \in {"a"} |-> Idle]
    /\ reported = <<>>
    /\ lowered = FALSE

\* Requirement(config, requirement): a new descriptor, nothing computed yet
Describe ==
    \E d \in DOMAIN obj :
        /\ obj[d] # EmptyDict
        /\ obj' = [obj EXCEPT ![d] = EmptyDict]
        /\ last' = [op |-> "describe", d |-> d]
        /\ UNCHANGED <<os_environ, uid, phase, load_env, configuration, cache, changes,
                       pip_requirement, source_dir, index, now, frame, reported, lowered>>

ReadProperty == \E d \in DOMAIN obj, property \in ReqProperties : Read(d, property)

\* An archive is downloaded into the source index, or replaced by a newer one:
\* its modification time is the time of the write.
WriteArchive ==
    \E f \in Archives :
        /\ changes < MaxWrites
        /\ changes' = changes + 1
        /\ index' = [g \in DOMAIN index \cup {f} |-> IF g = f THEN now ELSE index[g]]
        /\ last' = [op |-> "write"]
        /\ UNCHANGED <<os_environ, uid, phase, load_env, configuration, cache,
                       pip_requirement, source_dir, now, obj, frame, reported, lowered>>

\* An archive is removed from the source index; lowered records that it was
\* the newest related archive and that an older one remains.
RemoveArchive ==
    \E f \in DOMAIN index :
        /\ changes < MaxWrites
        /\ changes' = changes + 1
        /\ index' = [g \in DOMAIN index \ {f} |-> index[g]]
        /\ lowered' = (\/ lowered
                       \/ \E d \in DOMAIN obj :
                            /\ Related(d, f)
                            /\ \E g \in DOMAIN index \ {f} : Related(d, g)
                            /\ \A g \in DOMAIN index \ {f} :
                                   Related(d, g) => index[g] < index[f])
        /\ last' = [op |-> "remove"]
        /\ UNCHANGED <<os_environ, uid, phase, load_env, configuration, cache,
                       pip_requirement, source_dir, now, obj, frame, reported>>

\* time.time() advances
Tick ==
    /\ now < MaxClock
    /\ now' = now + 1
    /\ last' = [op |-> "tick"]
    /\ UNCHANGED <<os_environ, uid, phase, load_env, configuration, cache, changes,
                   pip_requirement, source_dir, index, obj, frame, reported, lowered>>

ReqNext == Describe \/ ReadProperty \/ WriteArchive \/ RemoveArchive \/ Tick

ReqSpec == ReqInit /\ [][ReqNext]_vars

(***************************************************************************)
(* Two descriptors of the same requirement over an unchanged source index  *)
(***************************************************************************)
\* Every derived field of a descriptor.
DerivedFields == {"name", "version", "source_directory", "is_wheel", "is_transitive",
                  "is_direct", "is_editable", "related_archives", "last_modified"}

TwinInit ==
    /\ DefaultConfig
    /\ pip_requirement \in
         { [d \in {"a", "b"} |-> r] :
             r \in { InstallRequirement(FOO, None, FALSE),
                     InstallRequirement(FOO, [install_requirement |-> P_Y_Z], TRUE) } }
    /\ source_dir \in { Unpacked(TRUE, FALSE, FALSE, V1_0), Unpacked(FALSE, TRUE, TRUE, V1_0) }
    /\ index \in IndexSamples
    /\ now = 2
    /\ obj = [d \in {"a", "b"} |-> EmptyDict]
    /\ frame = [d \in {"a", "b"} |-> Idle]
    /\ reported = <<>>
    /\ lowered = FALSE

\* The fields read of the two descriptors; evaluating them computes every
\* derived field.
TwinProperties == {"name", "is_direct", "is_editable", "last_modified"}

ReadTwin == \E d \in DOMAIN obj, property \in TwinProperties : Read(d, property)

TwinNext == ReadTwin \/ Tick

TwinSpec == TwinInit /\ [][TwinNext]_vars

(***************************************************************************)
(* A descriptor over a source directory whose marker files change          *)
(***************************************************************************)
\* The properties read of the descriptor.
FormatProperties == {"is_wheel", "version"}

FormatInit ==
    /\ DefaultConfig
    /\ pip_requirement = [d \in {"a"} |-> InstallRequirement(FOO, None, FALSE)]
    /\ source_dir \in { Unpacked(s, w, w, V1_0) : s \in BOOLEAN, w \in BOOLEAN }
                      \cup { Unpacked(FALSE, TRUE, FALSE, V1_0) }
    /\ index \in { [f \in {} |-> 1], [f \in {FOO_TAR_GZ} |-> 1] }
    /\ now = 2
    /\ obj = [d \in {"a"} |-> EmptyDict]
    /\ frame = [d \in {"a"} |-> Idle]
    /\ reported = <<>>
    /\ lowered = FALSE

ReadFormat == \E d \in DOMAIN obj, property \in FormatProperties : Read(d, property)

\* setup.py or the wheel's *.dist-info/WHEEL is created in, or deleted from,
\* the source directory.
ChangeMarkers ==
    \E s \in BOOLEAN, w \in BOOLEAN :
        /\ changes < MaxWrites
        /\ changes' = changes + 1
        /\ <<s, w>> # <<source_dir.setup_py, source_dir.wheel>>
        /\ source_dir' = [source_dir EXCEPT !.setup_py = s, !.wheel = w, !.distribution = w]
        /\ UNCHANGED <<os_environ, uid, phase, load_env, configuration, cache, last,
                       pip_requirement, index, now, obj, frame, reported, lowered>>

FormatNext == Describe \/ ReadFormat \/ ChangeMarkers

FormatSpec == FormatInit /\ [][FormatNext]_vars

(***************************************************************************)
(* Two threads, each evaluating related_archives of its own descriptor,    *)
(* the descriptors sharing one Config                                      *)
(***************************************************************************)
fixedVars == <<os_environ, uid, phase, load_env, configuration, changes, last,
               pip_requirement, source_dir, index, now, reported, lowered>>

P_Y_Z_ZIP == <<"p", "_", "y", "-", "z", "-">> \o V1_0 \o ZIP

ConcIndexes ==
    { [f \in S |-> 1] : S \in { {}, {FOO_TAR_GZ}, {FOO_TAR_GZ, P_Y_Z_ZIP},
                                {FOO_TAR_GZ, FOO_ZIP, P_Y_Z_ZIP} } }

\* The frame of a thread inside related_archives: pc is its position, local
\* the value it holds, seen the values self.config.source_index gave it,
\* computed whether it ran the function of source_index, todo the matching
\* file names still to join and paths the pathnames joined so far.
Frame(pc, local, seen, computed, todo, paths) ==
    [pc |-> pc, local |-> local, seen |-> seen, computed |-> computed,
     todo |-> todo, paths |-> paths, raised |-> FALSE, error |-> ""]

\* The frame of a thread an exception ended.
Ended(f, error) == [f EXCEPT !.pc = "done", !.raised = TRUE, !.error = error]

\* What self.name and self.version leave behind, s2 being their evaluation.
Entered(d, s2) ==
    /\ obj' = [obj EXCEPT ![d] = s2.dict]
    /\ frame' = [frame EXCEPT ![d] =
                    IF s2.raised
                    THEN Ended(Frame("done", None, {}, FALSE, {}, {}), s2.error)
                    ELSE Frame("source_index", None, {}, FALSE, {}, {})]
    /\ UNCHANGED <<cache, fixedVars>>

\* related_archives is read of a descriptor that has not computed it: the
\* thread builds the pattern of name and version.
Enter(d) ==
    /\ frame[d].pc = "idle"
    /\ "related_archives" \notin DOMAIN obj[d]
    /\ Entered(d, version(name(Start(d))))

\* The position after self.config.source_index gave its value.
AfterSourceIndex(f) == IF f.todo = {} THEN "listdir" ELSE "join"

\* self.config.source_index: the stored value, or else the function runs
AccessSourceIndex(d) ==
    /\ frame[d].pc = "source_index"
    /\ frame' = [frame EXCEPT ![d] =
                    IF "source_index" \in DOMAIN cache
                    THEN [@ EXCEPT !.pc = AfterSourceIndex(frame[d]),
                                   !.local = cache["source_index"],
                                   !.seen = @ \cup {cache["source_index"]}]
                    ELSE [@ EXCEPT !.pc = "data_directory", !.computed = TRUE]]
    /\ UNCHANGED <<cache, obj, fixedVars>>

\* self.data_directory inside source_index: the stored value, or else the
\* function runs and returns
AccessDataDirectory(d) ==
    /\ frame[d].pc = "data_directory"
    /\ frame' = [frame EXCEPT ![d] =
                    IF "data_directory" \in DOMAIN cache
                    THEN [@ EXCEPT !.pc = "return_source_index",
                                   !.local = cache["data_directory"]]
                    ELSE [@ EXCEPT !.pc = "store_data_directory",
                                   !.local = data_directory(EmptyDict).val]]
    /\ UNCHANGED <<cache, obj, fixedVars>>

\* cached_property stores the value data_directory returned
StoreDataDirectory(d) ==
    /\ frame[d].pc = "store_data_directory"
    /\ cache' = dict_set(cache, "data_directory", frame[d].local)
    /\ frame' = [frame EXCEPT ![d].pc = "return_source_index"]
    /\ UNCHANGED <<obj, fixedVars>>

\* (mutant of StoreSourceIndex: 'sources' is joined to the value another
\* thread stored meanwhile)
StoreSourceIndex_appending(d) ==
    /\ frame[d].pc = "return_source_index"
    /\ cache' = dict_set(cache, "source_index",
                         path_join(IF "source_index" \in DOMAIN cache
                                   THEN cache["source_index"] ELSE frame[d].local,
                                   "sources"))
    /\ frame' = [frame EXCEPT ![d] =
                    [@ EXCEPT !.pc = AfterSourceIndex(frame[d]),
                              !.local = cache'["source_index"],
                              !.seen = @ \cup {cache'["source_index"]}]]
    /\ UNCHANGED <<obj, fixedVars>>

\* source_index returns os.path.join(self.data_directory, 'sources') and
\* cached_property stores it
StoreSourceIndex(d) ==
    /\ frame[d].pc = "return_source_index"
    /\ cache' = dict_set(cache, "source_index", path_join(frame[d].local, "sources"))
    /\ frame' = [frame EXCEPT ![d] =
                    [@ EXCEPT !.pc = AfterSourceIndex(frame[d]),
                              !.local = path_join(frame[d].local, "sources"),
                              !.seen = @ \cup {path_join(frame[d].local, "sources")}]]
    /\ UNCHANGED <<obj, fixedVars>>

\* The file names of a listing that the pattern of descriptor d matches.
Matching(d, listing) ==
    { f \in listing :
        match(compile(escape_name(obj[d]["name"]), re_escape(obj[d]["version"]),
                      extension_pattern), f) }

\* os.listdir(self.config.source_index), filtered by compiled_pattern.match
ListDir(d) ==
    /\ frame[d].pc = "listdir"
    /\ frame' = [frame EXCEPT ![d] =
                    IF ~isdir(frame[d].local) THEN Ended(@, "OSError")
                    ELSE IF Matching(d, listdir(frame[d].local)) = {}
                         THEN [@ EXCEPT !.pc = "return"]
                    ELSE [@ EXCEPT !.pc = "source_index",
                                   !.todo = Matching(d, listdir(frame[d].local))]]
    /\ UNCHANGED <<cache, obj, fixedVars>>

\* os.path.join(self.config.source_index, fn) for the next matching fn
Join(d) ==
    /\ frame[d].pc = "join"
    /\ \E fn \in frame[d].todo :
        frame' = [frame EXCEPT ![d] =
                     [@ EXCEPT !.pc = IF frame[d].todo = {fn} THEN "return" ELSE "source_index",
                               !.todo = @ \ {fn},
                               !.paths = @ \cup {path_join(frame[d].local, fn)}]]
    /\ UNCHANGED <<cache, obj, fixedVars>>

\* related_archives returns the list and cached_property stores it
Return(d) ==
    /\ frame[d].pc = "return"
    /\ obj' = [obj EXCEPT ![d] = dict_set(@, "related_archives", frame[d].paths)]
    /\ frame' = [frame EXCEPT ![d].pc = "done"]
    /\ UNCHANGED <<cache, fixedVars>>

ConcInit ==
    /\ os_environ \in InitialEnvironments
    /\ uid = 1000
    /\ phase = "ready"
    /\ load_env = TRUE
    /\ configuration = EmptyDict
    /\ cache = EmptyDict
    /\ changes = 0
    /\ last = [op |-> "none"]
    /\ pip_requirement = [d \in {"a", "b"} |->
                             InstallRequirement(IF d = "a" THEN FOO ELSE P_Y_Z, None, FALSE)]
    /\ source_dir \in { Unpacked(TRUE, FALSE, FALSE, V1_0), Unpacked(FALSE, TRUE, TRUE, V1_0),
                       Unpacked(TRUE, TRUE, TRUE, V1_0) }
    /\ index \in ConcIndexes
    /\ now = 2
    /\ obj = [d \in {"a", "b"} |-> EmptyDict]
    /\ frame = [d \in {"a", "b"} |-> Idle]
    /\ reported = <<>>
    /\ lowered = FALSE

ThreadEnter == \E d \in DOMAIN frame : Enter(d)
ThreadAccessSourceIndex == \E d \in DOMAIN frame : AccessSourceIndex(d)
ThreadAccessDataDirectory == \E d \in DOMAIN frame : AccessDataDirectory(d)
ThreadStoreDataDirectory == \E d \in DOMAIN frame : StoreDataDirectory(d)
ThreadStoreSourceIndex == \E d \in DOMAIN frame : StoreSourceIndex(d)
ThreadListDir == \E d \in DOMAIN frame : ListDir(d)
ThreadJoin == \E d \in DOMAIN frame : Join(d)
ThreadReturn == \E d \in DOMAIN frame : Return(d)

ConcNext ==
    \/ ThreadEnter \/ ThreadAccessSourceIndex \/ ThreadAccessDataDirectory
    \/ ThreadStoreDataDirectory \/ ThreadStoreSourceIndex \/ ThreadListDir
    \/ ThreadJoin \/ ThreadReturn

ConcSpec == ConcInit /\ [][ConcNext]_vars

(***************************************************************************)
(* Claims about Config                                                     *)
(***************************************************************************)
\* What a get looked up, in the state it returned in.
GetEnv == dict_get(environment, last.environment_variable)
GetSet == GetEnv # None /\ GetEnv # EmptyStr

\* C1 (as stated): get returns the environment variable's value when it is set
\* and non-empty, otherwise the merged file value when the key is present in
\* the merged map, otherwise the default.
C1_GetAsClaimed ==
    last.op = "get" =>
        last.value = IF GetSet THEN GetEnv
                     ELSE IF last.configuration_option \in DOMAIN configuration
                          THEN configuration[last.configuration_option]
                          ELSE last.default

\* C1 (amended): get returns the environment variable's value when it is set
\* and non-empty, otherwise the merged file value when the key is present with
\* a non-empty value, otherwise the default: an empty value counts as unset in
\* the environment and in the file alike.
C1_GetPrecedence ==
    last.op = "get" =>
        last.value = IF GetSet THEN GetEnv
                     ELSE IF /\ last.configuration_option \in DOMAIN configuration
                             /\ configuration[last.configuration_option] # EmptyStr
                          THEN configuration[last.configuration_option]
                          ELSE last.default

\* An environment variable set to the empty string, the key present in the
\* file with a value: get returned the file's value, not the default.
C1_Witness ==
    /\ last.op = "get"
    /\ GetEnv = EmptyStr
    /\ last.configuration_option \in DOMAIN configuration
    /\ last.default = Str(<<"default">>)
    /\ last.value = configuration[last.configuration_option]
    /\ last.value \notin {EmptyStr, last.default}

\* The candidate files in priority order: system-wide, user-specific, then the
\* one the environment points to (when it points to one).
PriorityOrder ==
    <<Str(<<"/", "etc", "pip-accel.conf">>),
      Str(<<"/", "home", "user", ".pip-accel", "pip-accel.conf">>)>>
    \o (IF dict_get(environment, "PIP_ACCEL_CONFIG") = Str(<<"/", "custom.conf">>)
        THEN <<Str(<<"/", "custom.conf">>)>> ELSE <<>>)

\* The positions in PriorityOrder of the files found that define option o.
Defining(o) ==
    { i \in DOMAIN PriorityOrder :
        /\ PriorityOrder[i] \in DOMAIN last.files
        /\ last.files[PriorityOrder[i]].kind = "ok"
        /\ o \in DOMAIN last.files[PriorityOrder[i]].items }

Latest(S) == CHOOSE i \in S : \A j \in S : j <= i

\* C2: after a construction that loaded the configuration files, every option's
\* value in the merged map is the one of the last file, in the order
\* system-wide, user-specific, environment-pointed, that defines it; an option
\* no file defines is not in the map.
C2_LastWriteWins ==
    (last.op = "init" /\ last.load_configuration_files /\ ~last.raised) =>
        \A o \in Options :
            IF Defining(o) = {} THEN o \notin DOMAIN configuration
            ELSE /\ o \in DOMAIN configuration
                 /\ configuration[o] = last.files[PriorityOrder[Latest(Defining(o))]].items[o]

\* All three files present: data-directory is in each of them and the
\* environment-pointed file's value is the effective one, while download-cache,
\* which only the user's file defines, keeps that file's value.
C2_Witness ==
    /\ last.op = "init" /\ last.load_configuration_files /\ ~last.raised
    /\ Len(PriorityOrder) = 3
    /\ \A i \in 1..3 : i \in Defining("data-directory")
    /\ last.files[PriorityOrder[3]].items["data-directory"]
         # last.files[PriorityOrder[2]].items["data-directory"]
    /\ configuration["data-directory"] = last.files[PriorityOrder[3]].items["data-directory"]
    /\ Defining("download-cache") = {2}
    /\ configuration["download-cache"] = last.files[PriorityOrder[2]].items["download-cache"]

\* C3: a successful read of a setting leaves its value in the object; a value
\* the object holds is never changed or dropped, by no change of the
\* environment and no further load_configuration_file; and a read of a setting
\* the object holds a value of returns that value.
C3_SettingsSnapshot ==
    [][ /\ \A f \in DOMAIN cache :
            /\ f \in DOMAIN cache' /\ cache'[f] = cache[f]
            /\ (last'.op = "read" /\ last'.field = f)
                 => (~last'.raised /\ last'.value = cache[f])
        /\ (last'.op = "read" /\ ~last'.raised)
             => (last'.field \in DOMAIN cache' /\ cache'[last'.field] = last'.value)
      ]_vars

\* data_directory was read again after a change of the environment or of the
\* merged map: the read returned the value of the first read, which a fresh
\* evaluation would no longer give.
C3_Witness ==
    /\ last.op = "read" /\ last.field = "data_directory" /\ ~last.raised
    /\ changes > 0
    /\ last.value = cache["data_directory"]
    /\ last.value # data_directory(EmptyDict).val

InvalidKinds == {"unreadable", "malformed", "nosection"}

\* C5: a construction that loads the configuration files fails exactly when a
\* candidate file exists and is unreadable, malformed or without the pip-accel
\* section; then it raises.  Candidates that do not exist are skipped.
C5_AbsentSkippedInvalidFails ==
    (last.op = "init" /\ last.load_configuration_files) =>
        /\ last.raised <=> (\E p \in DOMAIN last.files : last.files[p].kind \in InvalidKinds)
        /\ last.raised => (phase = "failed" /\ last.error # "")
        /\ ~last.raised => phase = "ready"

\* The system-wide file does not exist and the user's file has no pip-accel
\* section: construction failed on the second, after skipping the first.
C5_Witness ==
    /\ last.op = "init" /\ last.load_configuration_files
    /\ last.files[PriorityOrder[1]].kind = "absent"
    /\ last.files[PriorityOrder[2]].kind = "nosection"
    /\ last.raised /\ phase = "failed"

\* A candidate that does not exist next to valid ones: construction succeeded.
C5_WitnessSkipped ==
    /\ last.op = "init" /\ last.load_configuration_files
    /\ \E p \in DOMAIN last.files : last.files[p].kind = "absent"
    /\ \E p \in DOMAIN last.files : last.files[p].kind = "ok"
    /\ phase = "ready"

(***************************************************************************)
(* Claims about Requirement                                                *)
(***************************************************************************)
\* The evidence in the unpacked source directory.
OnlySetupPy == source_dir.setup_py /\ ~source_dir.wheel
OnlyWheel == source_dir.wheel /\ ~source_dir.setup_py
BothMarkers == source_dir.setup_py /\ source_dir.wheel
NoMarker == ~source_dir.setup_py /\ ~source_dir.wheel

IsWheelRead == last.op = "read" /\ last.property = "is_wheel"

\* C4 (as stated): only setup.py yields a source distribution, only the wheel
\* marker yields a wheel, both fail with AmbiguousDistributionFormat, neither
\* fails with UnknownDistributionFormat.
C4_FormatsAsClaimed ==
    IsWheelRead =>
        /\ OnlySetupPy => (~last.raised /\ last.value = Bool(FALSE))
        /\ OnlyWheel => (~last.raised /\ last.value = Bool(TRUE))
        /\ BothMarkers => (last.raised /\ last.error = "AmbiguousDistributionFormat")
        /\ NoMarker => (last.raised /\ last.error = "UnknownDistributionFormat")

\* C4 (amended): only setup.py yields a source distribution, only the wheel
\* marker yields a wheel, and both markers as well as no marker fail with
\* UnknownDistributionFormat: the two failures are one error kind, told apart
\* by their message only.  No case defaults to a format.
C4_FormatDetection ==
    IsWheelRead =>
        /\ OnlySetupPy => (~last.raised /\ last.value = Bool(FALSE))
        /\ OnlyWheel => (~last.raised /\ last.value = Bool(TRUE))
        /\ BothMarkers =>
             /\ last.raised /\ last.error = "UnknownDistributionFormat"
             /\ last.message = "looks like a source distribution and a wheel distribution"
             /\ "is_wheel" \notin DOMAIN obj[last.d]
        /\ NoMarker =>
             /\ last.raised /\ last.error = "UnknownDistributionFormat"
             /\ last.message # "looks like a source distribution and a wheel distribution"
             /\ "is_wheel" \notin DOMAIN obj[last.d]

\* is_wheel was read of a directory holding setup.py and a wheel marker: it raised.
C4_Witness ==
    /\ IsWheelRead /\ BothMarkers
    /\ last.raised /\ last.error = "UnknownDistributionFormat"

\* The lower case form of a character, dash and underscore taken as one.
Canon(c) == IF c = "_" THEN "-" ELSE lower(c)

\* The file name without the newline that may end it.
Chomp(fn) ==
    IF fn # <<>> /\ fn[Len(fn)] = "\n" THEN SubSeq(fn, 1, Len(fn) - 1) ELSE fn

\* The file name is the name n, one of the separators, the version v and a
\* source archive extension: case ignored throughout, dash and underscore
\* interchangeable within the name.
Named(fn, n, separators, v) ==
    \E ext \in ARCHIVE_EXTENSIONS \ {WHL} :
        /\ Len(Chomp(fn)) = Len(n) + 1 + Len(v) + Len(ext)
        /\ \A k \in DOMAIN n : Canon(fn[k]) = Canon(n[k])
        /\ fn[Len(n) + 1] \in separators
        /\ \A k \in DOMAIN v : lower(fn[Len(n) + 1 + k]) = lower(v[k])
        /\ \A k \in DOMAIN ext : lower(fn[Len(n) + 1 + Len(v) + k]) = ext[k]

RelatedArchivesRead ==
    last.op = "read" /\ last.property = "related_archives" /\ ~last.raised

\* The files of the source index a read of related_archives listed.
Listed == { basename(path) : path \in last.value }

\* C6 (as stated): related_archives lists exactly the files of the source index
\* named name, version and a source archive extension, case ignored and dash
\* and underscore interchangeable, between name and version too: Foo_1.0.zip
\* is an archive of foo 1.0.
C6_SeparatorInsensitive ==
    RelatedArchivesRead =>
        Listed = { f \in DOMAIN index :
                     Named(f, pip_requirement[last.d].project_name, {"-", "_"}, source_dir.version) }

\* C6 (amended): related_archives lists exactly the files of the source index
\* named name, a dash, version and a source archive extension other than .whl
\* (a newline may end the file name), case ignored, dash and underscore
\* interchangeable within the name only: the separator between name and
\* version is a dash, so that Foo_1.0.zip is not an archive of foo 1.0.
C6_RelatedArchives ==
    RelatedArchivesRead =>
        /\ Listed = { f \in DOMAIN index :
                        Named(f, pip_requirement[last.d].project_name, {"-"}, source_dir.version) }
        /\ \A path \in last.value : path = path_join(INDEX_DIR, basename(path))

\* foo 1.0 over an index holding foo-1.0.tar.gz and Foo_1.0.zip: the first is
\* listed, the second is not.
C6_Witness ==
    /\ RelatedArchivesRead
    /\ pip_requirement[last.d].project_name = FOO /\ source_dir.version = V1_0
    /\ DOMAIN index = {FOO \o <<"-">> \o V1_0 \o TAR_GZ, <<"F", "o", "o", "_">> \o V1_0 \o ZIP}
    /\ Listed = {FOO \o <<"-">> \o V1_0 \o TAR_GZ}

\* p-y_z 1.0 over an index holding p_y-z-1.0.zip: dash and underscore are
\* interchangeable within the name.
C6_WitnessName ==
    /\ RelatedArchivesRead
    /\ pip_requirement[last.d].project_name = P_Y_Z
    /\ Listed = {<<"p", "_", "y", "-", "z", "-">> \o V1_0 \o ZIP}

LastModifiedComputed ==
    /\ last.op = "read" /\ last.property = "last_modified"
    /\ ~last.hit /\ ~last.raised

\* The modification times of the related archives of the descriptor last read.
Mtimes == { index[basename(path)] : path \in obj[last.d]["related_archives"] }

\* C7: a last_modified that was computed is the greatest modification time of
\* the descriptor's related archives when there is one, and the time of the
\* call when there is none.
C7_LastModified ==
    LastModifiedComputed =>
        last.value = IF Mtimes # {} THEN Max(Mtimes) ELSE now

\* Two related archives of different modification times: the later one is
\* last_modified.
C7_Witness ==
    /\ LastModifiedComputed
    /\ Cardinality(obj[last.d]["related_archives"]) = 2
    /\ \E m \in Mtimes : m < last.value

\* No related archive: last_modified is the time of the call.
C7_WitnessFresh ==
    /\ LastModifiedComputed
    /\ obj[last.d]["related_archives"] = {}
    /\ DOMAIN index # {}
    /\ last.value = now

\* The derived fields both descriptors have computed.
Common == DOMAIN obj["a"] \cap DOMAIN obj["b"] \cap DerivedFields

\* C8 (as stated): two descriptors of the same requirement and settings over
\* an unchanged file system have the same value in every derived field.
C8_Idempotent ==
    \A property \in Common : obj["a"][property] = obj["b"][property]

\* C8 (amended): two descriptors of the same requirement and settings over an
\* unchanged file system have the same value in every derived field, but for
\* last_modified when there is no related archive: it is then the time each
\* descriptor computed it at.
C8_IdempotentButFresh ==
    \A property \in Common :
        \/ obj["a"][property] = obj["b"][property]
        \/ /\ property = "last_modified"
           /\ obj["a"]["related_archives"] = {}
           /\ obj["b"]["related_archives"] = {}

\* Both descriptors computed every derived field, at different times, with a
\* related archive in the index.
C8_Witness ==
    /\ Common = DerivedFields
    /\ obj["a"]["related_archives"] # {}
    /\ now > 2
    /\ last.op = "read" /\ ~last.hit

\* Both descriptors computed every derived field and differ in last_modified.
C8_WitnessFresh ==
    /\ Common = DerivedFields
    /\ obj["a"]["last_modified"] # obj["b"]["last_modified"]

\* C9: the metadata of a source distribution is read of a source distribution
\* only and the metadata of a wheel of a wheel only; sdist_metadata of a wheel
\* and wheel_metadata of a source distribution raise TypeError and read nothing.
C9_AccessorByFormat ==
    last.op = "read" =>
        /\ "pkg_info" \in last.readers =>
               (OnlySetupPy /\ obj[last.d]["is_wheel"] = Bool(FALSE))
        /\ "find_distributions" \in last.readers =>
               (OnlyWheel /\ obj[last.d]["is_wheel"] = Bool(TRUE))
        /\ (last.property = "sdist_metadata" /\ OnlyWheel) =>
               (last.raised /\ last.error = "TypeError" /\ last.readers = {})
        /\ (last.property = "wheel_metadata" /\ OnlySetupPy) =>
               (last.raised /\ last.error = "TypeError" /\ last.readers = {})
        /\ (last.property = "version" /\ ~last.hit /\ ~last.raised) =>
               last.value = source_dir.version

\* sdist_metadata was read of a wheel: TypeError, nothing read.
C9_Witness ==
    /\ last.op = "read" /\ last.property = "sdist_metadata"
    /\ OnlyWheel
    /\ last.raised /\ last.error = "TypeError" /\ last.readers = {}

\* version was computed of a wheel: by the wheel's metadata.
C9_WitnessVersion ==
    /\ last.op = "read" /\ last.property = "version" /\ ~last.hit
    /\ OnlyWheel /\ ~last.raised
    /\ last.readers = {"find_distributions"}

\* A step that computes last_modified after an earlier one was computed.
LaterReport ==
    /\ last'.op = "read" /\ last'.property = "last_modified"
    /\ ~last'.hit /\ ~last'.raised
    /\ reported # <<>>

\* C10 (as stated): whatever archives were added, replaced or removed in between,
\* a last_modified computed later is not smaller than one computed earlier.
C10_Monotonic ==
    [][LaterReport => last'.value >= reported[1]]_vars

\* C10 (amended): a last_modified computed later by a new descriptor is not
\* smaller than one computed earlier, over archives added or replaced at the
\* current time and archives removed, unless the newest related archive was
\* removed in between while an older one was left, or the earlier one was the
\* time of the call of a descriptor that had listed the index before a related
\* archive was written: the later one is then the time of an older archive.
C10_MonotonicUnlessLowered ==
    [][LaterReport => (lowered \/ last'.value >= reported[1])]_vars

\* After an archive was written, a later descriptor reported a greater
\* last_modified than the earlier one, taken from the archives.
C10_Witness ==
    /\ LastModifiedComputed
    /\ changes > 0
    /\ Len(reported) = 2 /\ reported[1] > reported[2]
    /\ obj[last.d]["related_archives"] # {}

\* The only related archive was removed: the later report is the current time.
C10_WitnessRemoved ==
    /\ LastModifiedComputed
    /\ last.value = now
    /\ Len(reported) = 2 /\ reported[2] < now
    /\ changes > 0
    /\ DOMAIN index = {}

\* The outcome of related_archives matches r, the evaluation of the same
\* property of a descriptor of the same requirement by one thread alone.
SameAsAlone(d, r) ==
    /\ frame[d].raised = r.raised
    /\ frame[d].raised => frame[d].error = r.error
    /\ ~frame[d].raised => obj[d] = r.dict

\* The settings fields as one thread alone computes them.
SettingsAlone == source_index(EmptyDict).dict

\* C11: under every interleaving of two threads that evaluate related_archives
\* of descriptors of different requirements sharing one Config, each
\* descriptor ends with the derived values it has when evaluated alone, the
\* shared settings hold the values one thread alone computes, and no thread
\* is given two different values of source_index.
C11_Interleavings ==
    /\ \A k \in DOMAIN cache : cache[k] = SettingsAlone[k]
    /\ \A d \in DOMAIN frame :
        /\ frame[d].pc # "idle" => Cardinality(frame[d].seen) <= 1
        /\ frame[d].pc = "done" =>
               SameAsAlone(d, related_archives([Start(d) EXCEPT !.dict = EmptyDict,
                                                                !.conf = EmptyDict]))

\* Both threads ran the function of source_index (neither found it stored)
\* and both listed an archive of their requirement.
C11_Witness ==
    \A d \in DOMAIN frame :
        /\ frame[d].pc = "done" /\ ~frame[d].raised
        /\ frame[d].computed
        /\ obj[d]["related_archives"] # {}

\* A step that reads is_wheel of descriptor d.
IsWheelStep(d) ==
    /\ source_dir' = source_dir
    /\ last'.op = "read" /\ last'.property = "is_wheel" /\ last'.d = d

\* C12 (as stated): an access of is_wheel gives the outcome the access before
\* it on the same descriptor gave, the same format or the same failure,
\* whatever happened to the marker files in between.
C12_SameOutcome ==
    [][\A d \in DOMAIN obj :
          (/\ IsWheelStep(d)
           /\ last.op = "read" /\ last.property = "is_wheel" /\ last.d = d)
          => (/\ last'.raised = last.raised
              /\ last'.value = last.value
              /\ last'.message = last.message)]_vars

\* C12 (amended): a format that was decided is decided once: it stays with the
\* descriptor and every later access returns it, whatever happens to the
\* marker files.  A failure is not kept: the next access inspects the source
\* directory again and gives the outcome its markers have then.
C12_DecidedOnceUnlessFailed ==
    [][\A d \in DOMAIN obj :
          /\ ("is_wheel" \in DOMAIN obj[d] /\ obj'[d] # EmptyDict) =>
                 (/\ "is_wheel" \in DOMAIN obj'[d]
                  /\ obj'[d]["is_wheel"] = obj[d]["is_wheel"])
          /\ (IsWheelStep(d) /\ "is_wheel" \in DOMAIN obj[d]) =>
                 (~last'.raised /\ last'.value = obj[d]["is_wheel"])
          /\ (IsWheelStep(d) /\ "is_wheel" \notin DOMAIN obj[d]) =>
                 /\ last'.raised <=> (BothMarkers \/ NoMarker)
                 /\ last'.raised => "is_wheel" \notin DOMAIN obj'[d]
                 /\ ~last'.raised =>
                        (/\ last'.value = Bool(OnlyWheel)
                         /\ "is_wheel" \in DOMAIN obj'[d]
                         /\ obj'[d]["is_wheel"] = last'.value)]_vars

\* The descriptor was found to be a wheel, the wheel marker was then replaced
\* by setup.py, and a later access still says wheel.
C12_Witness ==
    /\ IsWheelRead /\ last.hit
    /\ last.value = Bool(TRUE)
    /\ OnlySetupPy

====
